---- MODULE Spec2Model ----
(***************************************************************************)
(* TraceForge pipeline orchestration core: the stage span primitive        *)
(* (start-stage-span.ts), the error taxonomy and status resolver           *)
(* (error-taxonomy.ts), the deterministic evaluator (basic-evaluator.ts)   *)
(* and the five-stage orchestrator (orchestrator.ts, the revision that     *)
(* uses the Qdrant provider, lines 1236-1976).                             *)
(*                                                                         *)
(* Scores are exact rationals written as integers in units of 1/SCALE;     *)
(* strings appear through the features the code reads from them (empty or  *)
(* not, token-set sizes, substring hits, number of matching patterns).     *)
(***************************************************************************)
EXTENDS Integers, Sequences, FiniteSets, TLC

\* 1.0 in score units; divisible by every Jaccard denominator in use, by 3
\* (risk count / 3) and by 10 (the 0.3 / 0.2 weights)
SCALE == 6 * 100
\* largest token-set union the evaluator inputs are drawn from
MaxTokens == 3
\* length of the riskKeywords pattern list
NumRiskPatterns == 6

Status == {"OK", "DEGRADED", "ERROR"}

NoError == [type |-> "none", code |-> "none", message |-> "none"]

(***************************************************************************)
(* Raw failures thrown by collaborators.  code / status are the optional   *)
(* fields the code inspects ("none" / 0 when absent); frags is the set of  *)
(* substrings of the message that the code tests with includes().          *)
(***************************************************************************)
RawError(code, status, message, frags) ==
    [code |-> code, status |-> status, message |-> message, frags |-> frags]

ToolTimeoutError == RawError("TOOL_TIMEOUT", 0, "Tool timeout", {})

RagErrors == { RawError("ECONNREFUSED", 0, "connect ECONNREFUSED", {}),
               RawError("none", 0, "none", {}) }

LlmErrors == { RawError("none", 429, "Too Many Requests", {}),
               RawError("none", 503, "provider is down", {"provider", "down"}),
               RawError("none", 400, "prompt too large", {}),
               RawError("none", 0, "GEMINI_API_KEY is not set", {}) }

EvalErrors == { RawError("none", 0, "evaluator failed", {}) }

RemediationErrors == { RawError("none", 0, "remediation failed", {}) }

\* the ErrorType and ErrorCode unions
ErrorType == {"RAG_ERROR", "TOOL_ERROR", "LLM_ERROR", "EVALUATION_ERROR", "REMEDIATION_ERROR",
              "VALIDATION_ERROR", "AUTH_ERROR", "RATE_LIMIT", "TIMEOUT", "UNKNOWN"}

ErrorCode == {"RAG_EMPTY_RESULT", "RAG_PROVIDER_DOWN", "RAG_TIMEOUT",
              "TOOL_TIMEOUT", "TOOL_BAD_RESPONSE", "TOOL_UNAVAILABLE",
              "LLM_RATE_LIMIT", "LLM_CONTEXT_TOO_LARGE", "LLM_PROVIDER_DOWN",
              "EVAL_MODEL_FAILURE", "POLICY_VIOLATION", "REMEDIATION_FALLBACK_FAILED",
              "UNKNOWN"}

NoHints == [timeout |-> FALSE, rateLimit |-> FALSE, providerDown |-> FALSE, emptyResult |-> FALSE]

errMessage_Raw(e) == e.message

\* e?.message ?? 'Unknown error'
errMessage(e) == IF e.message = "none" THEN "Unknown error" ELSE e.message

Classification(type, code, e) == [type |-> type, code |-> code, message |-> errMessage(e)]

classifyError_ProviderFirst(stage, e, context) ==
    CASE stage = "rag" ->
           IF context.providerDown THEN Classification("RAG_ERROR", "RAG_PROVIDER_DOWN", e)
           ELSE IF context.timeout THEN Classification("TIMEOUT", "RAG_TIMEOUT", e)
           ELSE IF context.emptyResult THEN Classification("RAG_ERROR", "RAG_EMPTY_RESULT", e)
           ELSE Classification("RAG_ERROR", "RAG_PROVIDER_DOWN", e)
      [] stage = "tool" ->
           IF context.providerDown THEN Classification("TOOL_ERROR", "TOOL_UNAVAILABLE", e)
           ELSE IF e.code = "TOOL_TIMEOUT" \/ context.timeout THEN Classification("TIMEOUT", "TOOL_TIMEOUT", e)
           ELSE Classification("TOOL_ERROR", "TOOL_BAD_RESPONSE", e)
      [] stage = "llm" ->
           IF context.providerDown THEN Classification("LLM_ERROR", "LLM_PROVIDER_DOWN", e)
           ELSE IF context.rateLimit THEN Classification("RATE_LIMIT", "LLM_RATE_LIMIT", e)
           ELSE Classification("LLM_ERROR", "LLM_CONTEXT_TOO_LARGE", e)
      [] stage = "evaluation" -> Classification("EVALUATION_ERROR", "EVAL_MODEL_FAILURE", e)
      [] stage = "remediation" -> Classification("REMEDIATION_ERROR", "REMEDIATION_FALLBACK_FAILED", e)
      [] OTHER -> Classification("UNKNOWN", "UNKNOWN", e)

classifyError_OpenDefault(stage, e, context) ==
    CASE stage = "rag" ->
           IF context.timeout THEN Classification("TIMEOUT", "RAG_TIMEOUT", e)
           ELSE IF context.providerDown THEN Classification("RAG_ERROR", "RAG_PROVIDER_DOWN", e)
           ELSE IF context.emptyResult THEN Classification("RAG_ERROR", "RAG_EMPTY_RESULT", e)
           ELSE Classification("RAG_ERROR", "RAG_PROVIDER_DOWN", e)
      [] stage = "tool" ->
           IF e.code = "TOOL_TIMEOUT" \/ context.timeout THEN Classification("TIMEOUT", "TOOL_TIMEOUT", e)
           ELSE IF context.providerDown THEN Classification("TOOL_ERROR", "TOOL_UNAVAILABLE", e)
           ELSE Classification("TOOL_ERROR", "TOOL_BAD_RESPONSE", e)
      [] stage = "llm" ->
           IF context.rateLimit THEN Classification("RATE_LIMIT", "LLM_RATE_LIMIT", e)
           ELSE IF context.providerDown THEN Classification("LLM_ERROR", "LLM_PROVIDER_DOWN", e)
           ELSE Classification("LLM_ERROR", "LLM_CONTEXT_TOO_LARGE", e)
      [] stage = "evaluation" -> Classification("EVALUATION_ERROR", "EVAL_MODEL_FAILURE", e)
      [] stage = "remediation" -> Classification("REMEDIATION_ERROR", "REMEDIATION_FALLBACK_FAILED", e)
      [] OTHER -> Classification(stage, e.code, e)

\* switch (stage) over the optional hints; a raw error that is null,
\* undefined or has no message / code is RawError("none", 0, "none", {})
classifyError(stage, e, context) ==
    CASE stage = "rag" ->
           IF context.timeout THEN Classification("TIMEOUT", "RAG_TIMEOUT", e)
           ELSE IF context.providerDown THEN Classification("RAG_ERROR", "RAG_PROVIDER_DOWN", e)
           ELSE IF context.emptyResult THEN Classification("RAG_ERROR", "RAG_EMPTY_RESULT", e)
           ELSE Classification("RAG_ERROR", "RAG_PROVIDER_DOWN", e)
      [] stage = "tool" ->
           IF e.code = "TOOL_TIMEOUT" \/ context.timeout THEN Classification("TIMEOUT", "TOOL_TIMEOUT", e)
           ELSE IF context.providerDown THEN Classification("TOOL_ERROR", "TOOL_UNAVAILABLE", e)
           ELSE Classification("TOOL_ERROR", "TOOL_BAD_RESPONSE", e)
      [] stage = "llm" ->
           IF context.rateLimit THEN Classification("RATE_LIMIT", "LLM_RATE_LIMIT", e)
           ELSE IF context.providerDown THEN Classification("LLM_ERROR", "LLM_PROVIDER_DOWN", e)
           ELSE Classification("LLM_ERROR", "LLM_CONTEXT_TOO_LARGE", e)
      [] stage = "evaluation" -> Classification("EVALUATION_ERROR", "EVAL_MODEL_FAILURE", e)
      [] stage = "remediation" -> Classification("REMEDIATION_ERROR", "REMEDIATION_FALLBACK_FAILED", e)
      [] OTHER -> Classification("UNKNOWN", "UNKNOWN", e)

hasStageErrors_AnyEntry(errs) == Len(errs) > 0

\* stageErrors.some(e => e.error !== null)
hasStageErrors(errs) == \E i \in 1..Len(errs) : errs[i].error # NoError

determineFinalStatus_NoEarlyError(errs, remediationTriggered, remediationSucceeded, hasUsableResponse) ==
    IF hasStageErrors(errs) /\ remediationSucceeded THEN "DEGRADED"
    ELSE IF remediationTriggered /\ remediationSucceeded THEN "DEGRADED"
    ELSE IF remediationTriggered /\ ~remediationSucceeded /\ ~hasUsableResponse THEN "ERROR"
    ELSE IF hasStageErrors(errs) /\ hasUsableResponse THEN "DEGRADED"
    ELSE "OK"

determineFinalStatus_NoLateDegrade(errs, remediationTriggered, remediationSucceeded, hasUsableResponse) ==
    IF ~hasUsableResponse THEN "ERROR"
    ELSE IF hasStageErrors(errs) /\ remediationSucceeded THEN "DEGRADED"
    ELSE IF remediationTriggered /\ remediationSucceeded THEN "DEGRADED"
    ELSE "OK"

determineFinalStatus(errs, remediationTriggered, remediationSucceeded, hasUsableResponse) ==
    IF ~hasUsableResponse THEN "ERROR"
    ELSE IF hasStageErrors(errs) /\ remediationSucceeded THEN "DEGRADED"
    ELSE IF remediationTriggered /\ remediationSucceeded THEN "DEGRADED"
    ELSE IF remediationTriggered /\ ~remediationSucceeded /\ ~hasUsableResponse THEN "ERROR"
    ELSE IF hasStageErrors(errs) /\ hasUsableResponse THEN "DEGRADED"
    ELSE "OK"

(***************************************************************************)
(* Stage span primitive (startStageSpan / startStageSpanSync).  A span is  *)
(* a record: ctxStatus is the closure variable `status`, status the        *)
(* traceforge.status attribute, otel the OpenTelemetry status code,        *)
(* errType / errCode the error.type / error.code attributes, ended the     *)
(* number of span.end() calls.                                             *)
(***************************************************************************)
RequiredAttrs(stage) ==
    CASE stage = "rag" -> {"rag.provider", "rag.top_k", "rag.docs.count", "rag.query.length"}
      [] stage = "tool" -> {"tool.name", "tool.attempt", "tool.timeout_ms", "tool.result"}
      [] stage = "llm" -> {"llm.provider", "llm.model", "llm.tokens.input", "llm.tokens.output",
                           "llm.tokens.total", "llm.cost.usd"}
      [] stage = "evaluation" -> {"eval.faithfulness", "eval.relevance", "eval.policy_risk",
                                  "eval.hallucination", "eval.overall"}
      [] stage = "remediation" -> {"remediation.triggered", "remediation.action", "remediation.reason"}
      [] OTHER -> {}

validateStageAttrs_AnyBuild(stage, attrs, dev) == (RequiredAttrs(stage) \ attrs) # {}

\* TRUE iff validateStageAttrs throws; attrs is the set of keys whose value
\* is neither undefined nor null
validateStageAttrs(stage, attrs, dev) ==
    dev /\ (RequiredAttrs(stage) \ attrs) # {}

\* the stageAttrs literals the orchestrator passes for each stage
StageAttrs(stage) ==
    CASE stage = "request" -> {}
      [] stage = "rag" -> {"rag.provider", "rag.top_k", "rag.docs.count", "rag.query.length"}
      [] stage = "tool" -> {"tool.name", "tool.attempt", "tool.timeout_ms", "tool.result"}
      [] stage = "llm" -> {"llm.provider", "llm.model", "llm.tokens.input", "llm.tokens.output",
                           "llm.tokens.total", "llm.cost.usd"}
      [] stage = "evaluation" -> {"eval.faithfulness", "eval.relevance", "eval.policy_risk",
                                  "eval.hallucination", "eval.overall"}
      [] stage = "remediation" -> {"remediation.triggered", "remediation.action", "remediation.reason"}

ValidationError(stage) == RawError("none", 0, "Missing required attributes", {})

\* setMandatoryAttrs(span, requestId, tenantId, stage, status, error)
setMandatoryAttrs(s, status, error) ==
    LET s1 == [s EXCEPT !.status = status]
    IN  IF error # NoError /\ (status = "ERROR" \/ error.type # "none" \/ error.code # "none"
                               \/ error.message # "none")
        THEN [s1 EXCEPT !.errType = IF error.type # "none" THEN error.type ELSE @,
                        !.errCode = IF error.code # "none" THEN error.code ELSE @]
        ELSE s1

\* markSpanError: the value it returns ({type: e?.code ?? 'UNKNOWN', message})
markSpanError(err) ==
    [type |-> IF err.code = "none" THEN "UNKNOWN" ELSE err.code,
     code |-> "none",
     message |-> IF err.message = "none" THEN "error" ELSE err.message]

\* tracer.startActiveSpan + setMandatoryAttrs(status OK) + setStageAttrs
NewSpan(stage, toolResult) ==
    setMandatoryAttrs(
        [stage |-> stage, ctxStatus |-> "OK", status |-> "none", otel |-> "UNSET",
         errType |-> "none", errCode |-> "none", toolResult |-> toolResult,
         tfErrType |-> "none", tfErrCode |-> "none", remediation |-> "none", ended |-> 0],
        "OK", NoError)

SpanOpen_Twice(sp, stage, toolResult) ==
    Append(Append(sp, [NewSpan(stage, toolResult) EXCEPT !.ended = 1]), NewSpan(stage, toolResult))

SpanOpen(sp, stage, toolResult) == Append(sp, NewSpan(stage, toolResult))

updateStatus_AttrOnly(s, newStatus) == setMandatoryAttrs(s, newStatus, NoError)

\* ctx.updateStatus(newStatus)
updateStatus(s, newStatus) ==
    setMandatoryAttrs([s EXCEPT !.ctxStatus = newStatus], newStatus, NoError)

SpanEndOk_Open(s) == setMandatoryAttrs(s, s.ctxStatus, NoError)

\* success path: final setMandatoryAttrs, span.end()
SpanEndOk(s) ==
    [setMandatoryAttrs(s, s.ctxStatus, NoError) EXCEPT !.ended = @ + 1]

\* catch path: markSpanError, status ERROR, setMandatoryAttrs, span.end()
SpanEndThrow_NoEnd(s, err) ==
    setMandatoryAttrs([s EXCEPT !.otel = "ERROR", !.ctxStatus = "ERROR"],
                      "ERROR", markSpanError(err))

SpanEndThrow(s, err) ==
    [setMandatoryAttrs([s EXCEPT !.otel = "ERROR", !.ctxStatus = "ERROR"],
                       "ERROR", markSpanError(err))
       EXCEPT !.ended = @ + 1]

\* the last span opened (stage spans never nest among themselves)
Cur(sp) == Len(sp)

(***************************************************************************)
(* Deterministic evaluator (basic-evaluator.ts).  An overlap input is the  *)
(* pair <<|intersection|, |union|>> of the two token sets, <<0, 0>> when   *)
(* either text or token set is empty.                                      *)
(***************************************************************************)
Min(a, b) == IF a < b THEN a ELSE b
Max(a, b) == IF a > b THEN a ELSE b

clamp01(n) == Max(0, Min(SCALE, n))

OverlapInputs == { <<i, u>> \in (0..MaxTokens) \X (0..MaxTokens) : i <= u /\ (u = 0 => i = 0) }

calculateOverlap(ov) == IF ov[2] = 0 THEN 0 ELSE (SCALE * ov[1]) \div ov[2]

\* the six patterns of detectPolicyRisk, in the order the loop tests them
riskKeywords == << "ssn", "credit_card", "email", "credential", "destructive", "exploit" >>

\* the loop over riskKeywords from position i: riskCount++ for each pattern
\* whose test(answer) is true (matched = the patterns that match the answer)
RECURSIVE countMatches(_, _)
countMatches(matched, i) ==
    IF i > Len(riskKeywords) THEN 0
    ELSE (IF riskKeywords[i] \in matched THEN 1 ELSE 0) + countMatches(matched, i + 1)

detectPolicyRisk_PerPattern(riskCount) == Min((SCALE * riskCount) \div Len(riskKeywords), SCALE)

\* riskCount of the NumRiskPatterns patterns match the answer
detectPolicyRisk(riskCount) == Min((SCALE * riskCount) \div 3, SCALE)

\* 0.3 f + 0.3 r + 0.2 (1 - p) + 0.2 (1 - h)
Weighted(f, r, p, h) == (3 * f + 3 * r + 2 * (SCALE - p) + 2 * (SCALE - h)) \div 10

basicEvaluate_StaleHallucination(hasContext, ac, phraseHit, aq, queryHit, riskCount) ==
    LET faithfulness == IF hasContext
                        THEN IF phraseHit THEN Min(calculateOverlap(ac) + SCALE \div 5, SCALE)
                             ELSE calculateOverlap(ac)
                        ELSE SCALE \div 2
        relevance == calculateOverlap(aq)
        boostedRelevance == Min(relevance + (3 * SCALE) \div 10, SCALE)
        policy_risk == detectPolicyRisk(riskCount)
        hallucination == IF hasContext THEN SCALE - calculateOverlap(ac) ELSE (3 * SCALE) \div 10
    IN  IF queryHit
        THEN [faithfulness |-> faithfulness,
              relevance |-> boostedRelevance,
              policy_risk |-> policy_risk,
              hallucination |-> hallucination,
              overall |-> Weighted(faithfulness, boostedRelevance, policy_risk, hallucination)]
        ELSE [faithfulness |-> clamp01(faithfulness),
              relevance |-> clamp01(relevance),
              policy_risk |-> clamp01(policy_risk),
              hallucination |-> clamp01(hallucination),
              overall |-> clamp01(Weighted(faithfulness, relevance, policy_risk, hallucination))]

basicEvaluate_NoCap(hasContext, ac, phraseHit, aq, queryHit, riskCount) ==
    LET faithfulness == IF hasContext
                        THEN IF phraseHit THEN Min(calculateOverlap(ac) + SCALE \div 5, SCALE)
                             ELSE calculateOverlap(ac)
                        ELSE SCALE \div 2
        relevance == calculateOverlap(aq)
        boostedRelevance == relevance + (3 * SCALE) \div 10
        policy_risk == detectPolicyRisk(riskCount)
        hallucination == IF hasContext THEN SCALE - faithfulness ELSE (3 * SCALE) \div 10
    IN  IF queryHit
        THEN [faithfulness |-> faithfulness,
              relevance |-> boostedRelevance,
              policy_risk |-> policy_risk,
              hallucination |-> hallucination,
              overall |-> Weighted(faithfulness, boostedRelevance, policy_risk, hallucination)]
        ELSE [faithfulness |-> clamp01(faithfulness),
              relevance |-> clamp01(relevance),
              policy_risk |-> clamp01(policy_risk),
              hallucination |-> clamp01(hallucination),
              overall |-> clamp01(Weighted(faithfulness, relevance, policy_risk, hallucination))]

\* basicEvaluate({query, context, answer}) on the features of its input: the
\* early return (query prefix found in the answer) is not clamped
basicEvaluate(hasContext, ac, phraseHit, aq, queryHit, riskCount) ==
    LET faithfulness == IF hasContext
                        THEN IF phraseHit THEN Min(calculateOverlap(ac) + SCALE \div 5, SCALE)
                             ELSE calculateOverlap(ac)
                        ELSE SCALE \div 2
        relevance == calculateOverlap(aq)
        boostedRelevance == Min(relevance + (3 * SCALE) \div 10, SCALE)
        policy_risk == detectPolicyRisk(riskCount)
        hallucination == IF hasContext THEN SCALE - faithfulness ELSE (3 * SCALE) \div 10
    IN  IF queryHit
        THEN [faithfulness |-> faithfulness,
              relevance |-> boostedRelevance,
              policy_risk |-> policy_risk,
              hallucination |-> hallucination,
              overall |-> Weighted(faithfulness, boostedRelevance, policy_risk, hallucination)]
        ELSE [faithfulness |-> clamp01(faithfulness),
              relevance |-> clamp01(relevance),
              policy_risk |-> clamp01(policy_risk),
              hallucination |-> clamp01(hallucination),
              overall |-> clamp01(Weighted(faithfulness, relevance, policy_risk, hallucination))]

\* the features of (query, context, answer) the evaluator reads; an empty
\* answer has no tokens and matches no pattern
EvalFeatures(answerText) ==
    { ft \in [ac : OverlapInputs, phraseHit : BOOLEAN, aq : OverlapInputs,
              queryHit : BOOLEAN, riskCount : 0..NumRiskPatterns] :
        answerText = "" => (ft.ac = <<0, 0>> /\ ft.aq = <<0, 0>> /\ ft.riskCount = 0) }

\* the reasons list built from the scores (undefined when empty: {})
Reasons(f, r, p, h) ==
    (IF f < (7 * SCALE) \div 10 THEN {"Low faithfulness detected"} ELSE {})
    \cup (IF r < SCALE \div 2 THEN {"Low relevance to context"} ELSE {})
    \cup (IF p > (7 * SCALE) \div 10 THEN {"High policy risk detected"} ELSE {})
    \cup (IF h > SCALE \div 2 THEN {"Potential hallucination"} ELSE {})

\* the scores of the evaluation callback's try block
EvalScoresOf(ev, chaosPolicyRisk) ==
    LET policyRisk == IF chaosPolicyRisk THEN (9 * SCALE) \div 10 ELSE ev.policy_risk
        f == clamp01(ev.faithfulness)
        r == clamp01(ev.relevance)
        p == clamp01(policyRisk)
        h == clamp01(ev.hallucination)
    IN  [faithfulness |-> f, relevance |-> r, policyRisk |-> p, hallucination |-> h,
         overall |-> clamp01(ev.overall), reasons |-> Reasons(f, r, p, h)]

fallbackScores_Zero(reason) ==
    [faithfulness |-> 0, relevance |-> 0, policyRisk |-> 0, hallucination |-> 0,
     overall |-> 0, reasons |-> {reason}]

fallbackScores(reason) ==
    [faithfulness |-> SCALE \div 2, relevance |-> SCALE \div 2, policyRisk |-> SCALE \div 10,
     hallucination |-> (3 * SCALE) \div 10, overall |-> SCALE \div 2, reasons |-> {reason}]

(***************************************************************************)
(* Remediation                                                             *)
(***************************************************************************)
NoAction == <<>>

ClarificationText == "I may not have enough reliable information. Could you clarify or provide more details?"
SafeModeText == "Safe mode: I can't help with that request. Please rephrase or provide a safer alternative."

remediate_Cumulative(sc, failed) ==
    LET actions == (IF sc.policyRisk > (7 * SCALE) \div 10 THEN << "SAFE_MODE" >> ELSE NoAction)
                   \o (IF failed THEN << "FALLBACK_TOOL" >> ELSE NoAction)
                   \o (IF sc.faithfulness < (8 * SCALE) \div 10 THEN << "CLARIFICATION" >> ELSE NoAction)
        finalMode == IF sc.policyRisk > (7 * SCALE) \div 10 THEN "SAFE"
                     ELSE IF Len(actions) > 0 THEN "DEGRADED"
                     ELSE "NORMAL"
    IN  [triggered |-> Len(actions) > 0, actions |-> actions, finalMode |-> finalMode]

\* remediate(scores, toolFailed) of the earlier revision, kept in the file;
\* the current doOrchestrate does not call it
remediate(sc, failed) ==
    LET actions == IF sc.policyRisk > (7 * SCALE) \div 10 THEN << "SAFE_MODE" >>
                   ELSE IF failed THEN << "FALLBACK_TOOL" >>
                   ELSE IF sc.faithfulness < (8 * SCALE) \div 10 THEN << "CLARIFICATION" >>
                   ELSE NoAction
        finalMode == IF sc.policyRisk > (7 * SCALE) \div 10 THEN "SAFE"
                     ELSE IF failed THEN "DEGRADED"
                     ELSE IF sc.faithfulness < (8 * SCALE) \div 10 THEN "DEGRADED"
                     ELSE "NORMAL"
    IN  [triggered |-> Len(actions) > 0, actions |-> actions, finalMode |-> finalMode]

inlineRemediation_AtMost(sc) ==
    IF sc.overall > (75 * SCALE) \div 100
    THEN [triggered |-> FALSE, actions |-> NoAction, finalMode |-> "NORMAL"]
    ELSE [triggered |-> TRUE, actions |-> << "CLARIFICATION" >>, finalMode |-> "DEGRADED"]

\* the rule the remediation callback of doOrchestrate applies inline
inlineRemediation(sc) ==
    IF sc.overall >= (75 * SCALE) \div 100
    THEN [triggered |-> FALSE, actions |-> NoAction, finalMode |-> "NORMAL"]
    ELSE [triggered |-> TRUE, actions |-> << "CLARIFICATION" >>, finalMode |-> "DEGRADED"]

(***************************************************************************)
(* The orchestrator: one request through orchestrate / doOrchestrate.      *)
(* The asynchronous stages (retrieval, tool, generation) are split at      *)
(* their await; the synchronous tail (evaluation, remediation, response    *)
(* assembly) is one step per stage.                                        *)
(***************************************************************************)
VARIABLES
    pc,                   \* position of the request in the pipeline
    isDev,                \* process.env.NODE_ENV !== 'production'
    req,                  \* the AskRequest
    spans,                \* every span opened, in opening order; spans[1] is the root
    stageErrors,          \* the stageErrors list of doOrchestrate
    rag,                  \* result of the retrieval stage
    toolFailed,
    prompt,
    llm,                  \* result of the generation stage (its text)
    scores,
    evaluationError,
    remediationApplied,
    clarificationMessage, \* "" while undefined
    finalStatus,
    response,
    thrown,               \* the failure orchestrate rejected with
    requestCount,         \* status tags of the m.requestCount.add(1) calls
    requestLatency,       \* tags of the m.requestLatencyMs.record calls
    call,                 \* one application of a pure function: fn, args, done, result
    inflight              \* the requests of several concurrent orchestrate calls

vars == << pc, isDev, req, spans, stageErrors, rag, toolFailed, prompt, llm, scores,
           evaluationError, remediationApplied, clarificationMessage, finalStatus,
           response, thrown, requestCount, requestLatency, call, inflight >>

Queries == {"What is observability?", "How do I reset my password?"}
ContextText == "Observability is the ability to understand a system from its outputs."
AnswerText == "Observability lets you understand a system from its outputs."

\* `${answer}\n\n(Note: tool degraded; returned fallback response.)` of the
\* earlier revision's answer transform
withFallbackNotice(text) ==
    IF text = AnswerText
    THEN "Observability lets you understand a system from its outputs.\n\n(Note: tool degraded; returned fallback response.)"
    ELSE "\n\n(Note: tool degraded; returned fallback response.)"

NoRaw == RawError("none", 0, "not thrown", {})
NoScores == [faithfulness |-> 0, relevance |-> 0, policyRisk |-> 0, hallucination |-> 0,
             overall |-> 0, reasons |-> {}]
NoReport == [triggered |-> FALSE, actions |-> NoAction, finalMode |-> "none"]
NoResponse == [answer |-> "", eval |-> NoScores, remediation |-> NoReport]

NoCall == [fn |-> "none", args |-> << >>, done |-> FALSE, result |-> "none"]

\* the state before orchestrate is called
PipelineInit ==
    /\ pc = "idle"
    /\ isDev \in BOOLEAN
    /\ req = [text |-> "", chaos |-> [breakTool |-> FALSE, policyRisk |-> FALSE]]
    /\ spans = << >>
    /\ stageErrors = << >>
    /\ rag = [context |-> "", docs |-> 0]
    /\ toolFailed = FALSE
    /\ prompt = << >>
    /\ llm = [text |-> ""]
    /\ scores = NoScores
    /\ evaluationError = FALSE
    /\ remediationApplied = NoReport
    /\ clarificationMessage = ""
    /\ finalStatus = "none"
    /\ response = NoResponse
    /\ thrown = NoRaw
    /\ requestCount = << >>
    /\ requestLatency = << >>

Init ==
    /\ PipelineInit
    /\ inflight = << >>
    /\ call = NoCall

Rejected_RootOk(sp, err) ==
    /\ spans' = [sp EXCEPT ![1] = SpanEndOk(sp[1])]
    /\ thrown' = err
    /\ pc' = "rejected"

\* a failure leaves doOrchestrate: the root span's catch path runs and
\* orchestrate rejects with it
Rejected(sp, err) ==
    /\ spans' = [sp EXCEPT ![1] = SpanEndThrow(sp[1], err)]
    /\ thrown' = err
    /\ pc' = "rejected"

\* orchestrate is called: the root span is opened
Start ==
    /\ pc = "idle"
    /\ UNCHANGED << call, inflight >>
    /\ \E text \in Queries, breakTool \in BOOLEAN, policyRisk \in BOOLEAN :
          req' = [text |-> text, chaos |-> [breakTool |-> breakTool, policyRisk |-> policyRisk]]
    /\ ~validateStageAttrs("request", StageAttrs("request"), isDev)
    /\ spans' = SpanOpen(spans, "request", "none")
    /\ pc' = "rag"
    /\ UNCHANGED << isDev, stageErrors, rag, toolFailed, prompt, llm, scores, evaluationError,
                    remediationApplied, clarificationMessage, finalStatus, response, thrown,
                    requestCount, requestLatency >>

\* the retrieval span is opened and qdrantRagProvider.retrieve is awaited
RagOpen ==
    /\ pc = "rag"
    /\ UNCHANGED << call, inflight >>
    /\ IF validateStageAttrs("rag", StageAttrs("rag"), isDev)
       THEN Rejected(spans, ValidationError("rag"))
       ELSE /\ spans' = SpanOpen(spans, "rag", "none")
            /\ pc' = "rag_await"
            /\ UNCHANGED thrown
    /\ UNCHANGED << isDev, req, stageErrors, rag, toolFailed, prompt, llm, scores,
                    evaluationError, remediationApplied, clarificationMessage, finalStatus,
                    response, requestCount, requestLatency >>

ragCatchResult_KeepDocs == [context |-> ContextText, docs |-> 0]

\* what the retrieval callback's catch block returns
ragCatchResult == [context |-> "", docs |-> 0]

RagResults == { [context |-> ContextText, docs |-> 2], [context |-> "", docs |-> 0] }

\* retrieve settles: the callback's try or catch block runs, the span is closed
RagReturn ==
    /\ pc = "rag_await"
    /\ UNCHANGED << call, inflight >>
    /\ \/ \E result \in RagResults :
            /\ rag' = result
            /\ stageErrors' = Append(stageErrors, [stage |-> "rag", error |-> NoError])
            /\ spans' = [spans EXCEPT ![Cur(spans)] = SpanEndOk([@ EXCEPT !.status = "OK"])]
       \/ \E err \in RagErrors :
            LET errorClass == classifyError("rag", err, [NoHints EXCEPT !.providerDown = TRUE])
                marked == [spans[Cur(spans)] EXCEPT !.errType = errorClass.type,
                                                    !.errCode = errorClass.code,
                                                    !.status = "ERROR",
                                                    !.otel = "ERROR"]
            IN  /\ rag' = ragCatchResult
                /\ stageErrors' = Append(stageErrors, [stage |-> "rag", error |-> errorClass])
                /\ spans' = [spans EXCEPT ![Cur(spans)] = SpanEndOk(updateStatus(marked, "ERROR"))]
    /\ pc' = "tool"
    /\ UNCHANGED << isDev, req, toolFailed, prompt, llm, scores, evaluationError,
                    remediationApplied, clarificationMessage, finalStatus, response, thrown,
                    requestCount, requestLatency >>

\* the tool span is opened and mockToolCall is awaited
ToolOpen ==
    /\ pc = "tool"
    /\ UNCHANGED << call, inflight >>
    /\ IF validateStageAttrs("tool", StageAttrs("tool"), isDev)
       THEN \* caught by the try around the stage; the error span's own
            \* validation then throws out of the catch block
            /\ toolFailed' = TRUE
            /\ Rejected(spans, ValidationError("tool"))
       ELSE /\ spans' = SpanOpen(spans, "tool", "SUCCESS")
            /\ pc' = "tool_await"
            /\ UNCHANGED << toolFailed, thrown >>
    /\ UNCHANGED << isDev, req, stageErrors, rag, prompt, llm, scores, evaluationError,
                    remediationApplied, clarificationMessage, finalStatus, response,
                    requestCount, requestLatency >>

\* mockToolCall settles.  On a throw the primitive closes the span on its
\* catch path and rethrows; the orchestrator's catch sets toolFailed, opens
\* and closes a second tool span carrying the classification, and records
\* the stage error
ToolReturn ==
    /\ pc = "tool_await"
    /\ UNCHANGED << call, inflight >>
    /\ IF req.chaos.breakTool
       THEN LET e == ToolTimeoutError
                errorClass == classifyError("tool", e, [NoHints EXCEPT !.timeout = (e.code = "TOOL_TIMEOUT")])
                sp1 == [spans EXCEPT ![Cur(spans)] = SpanEndThrow(@, e)]
                sp2 == SpanOpen(sp1, "tool", "FAILURE")
                marked == [sp2[Cur(sp2)] EXCEPT !.errType = errorClass.type,
                                                !.errCode = errorClass.code,
                                                !.otel = "ERROR"]
            IN  /\ toolFailed' = TRUE
                /\ spans' = [sp2 EXCEPT ![Cur(sp2)] = SpanEndOk(updateStatus(marked, "ERROR"))]
                /\ stageErrors' = Append(stageErrors, [stage |-> "tool", error |-> errorClass])
       ELSE /\ spans' = [spans EXCEPT ![Cur(spans)] = SpanEndOk(@)]
            /\ UNCHANGED << toolFailed, stageErrors >>
    /\ pc' = "llm"
    /\ UNCHANGED << isDev, req, rag, prompt, llm, scores, evaluationError, remediationApplied,
                    clarificationMessage, finalStatus, response, thrown, requestCount,
                    requestLatency >>

Prompt_ToolNote(text, context) ==
    IF toolFailed THEN << "User: ", text, "\nContext: ", context, "\nTool: unavailable" >>
    ELSE << "User: ", text, "\nContext: ", context >>

\* `User: ${req.input.text}\nContext: ${rag.context}`
Prompt(text, context) == << "User: ", text, "\nContext: ", context >>

\* the prompt is built, the generation span is opened, generate is awaited
LlmOpen ==
    /\ pc = "llm"
    /\ UNCHANGED << call, inflight >>
    /\ prompt' = Prompt(req.text, rag.context)
    /\ IF validateStageAttrs("llm", StageAttrs("llm"), isDev)
       THEN Rejected(spans, ValidationError("llm"))
       ELSE /\ spans' = SpanOpen(spans, "llm", "none")
            /\ pc' = "llm_await"
            /\ UNCHANGED thrown
    /\ UNCHANGED << isDev, req, stageErrors, rag, toolFailed, llm, scores, evaluationError,
                    remediationApplied, clarificationMessage, finalStatus, response,
                    requestCount, requestLatency >>

LlmTexts == {AnswerText, ""}

\* err.message?.includes(sub)
Includes(err, sub) == sub \in err.frags

\* the hints the generation catch block passes to classifyError
llmErrorHints(err) ==
    [NoHints EXCEPT
       !.rateLimit = (err.status = 429 \/ Includes(err, "rate limit")),
       !.providerDown = (err.status >= 500 \/ Includes(err, "provider") \/ Includes(err, "down"))]

\* generate settles.  A throw is classified and written on the span by the
\* callback, rethrown, written again by the primitive's catch path, and
\* leaves doOrchestrate
LlmReturn ==
    /\ pc = "llm_await"
    /\ UNCHANGED << call, inflight >>
    /\ \/ \E text \in LlmTexts :
            /\ llm' = [text |-> text]
            /\ spans' = [spans EXCEPT ![Cur(spans)] =
                            SpanEndOk(updateStatus([@ EXCEPT !.status = "OK"], "OK"))]
            /\ pc' = "evaluation"
            /\ UNCHANGED thrown
       \/ \E err \in LlmErrors :
            LET errorClass == classifyError("llm", err, llmErrorHints(err))
                marked == [spans[Cur(spans)] EXCEPT !.status = "ERROR",
                                                    !.errType = errorClass.type,
                                                    !.errCode = errorClass.code,
                                                    !.otel = "ERROR"]
                sp1 == [spans EXCEPT ![Cur(spans)] = SpanEndThrow(updateStatus(marked, "ERROR"), err)]
            IN  /\ Rejected(sp1, err)
                /\ UNCHANGED llm
    /\ UNCHANGED << isDev, req, stageErrors, rag, toolFailed, prompt, scores, evaluationError,
                    remediationApplied, clarificationMessage, finalStatus, response,
                    requestCount, requestLatency >>

\* the evaluation stage (synchronous): basicEvaluate, or the fallback scores
\* of the callback's catch block, or those of the catch around the stage
Evaluation ==
    /\ pc = "evaluation"
    /\ UNCHANGED << call, inflight >>
    /\ IF validateStageAttrs("evaluation", StageAttrs("evaluation"), isDev)
       THEN /\ evaluationError' = TRUE
            /\ scores' = fallbackScores("Evaluation stage failure")
            /\ UNCHANGED spans
       ELSE LET sp1 == SpanOpen(spans, "evaluation", "none")
            IN  \/ \E ft \in EvalFeatures(llm.text) :
                     /\ scores' = EvalScoresOf(
                                     basicEvaluate(rag.context # "", ft.ac, ft.phraseHit, ft.aq,
                                                   ft.queryHit, ft.riskCount),
                                     req.chaos.policyRisk)
                     /\ spans' = [sp1 EXCEPT ![Cur(sp1)] = SpanEndOk([@ EXCEPT !.status = "OK"])]
                     /\ UNCHANGED evaluationError
                \/ \E err \in EvalErrors :
                     LET errorClass == classifyError("evaluation", err, NoHints)
                         marked == [sp1[Cur(sp1)] EXCEPT !.errType = errorClass.type,
                                                         !.errCode = errorClass.code,
                                                         !.status = "ERROR",
                                                         !.otel = "ERROR"]
                     IN  /\ scores' = fallbackScores("Evaluation engine failure")
                         /\ evaluationError' = TRUE
                         /\ spans' = [sp1 EXCEPT ![Cur(sp1)] = SpanEndOk(marked)]
    /\ pc' = "remediation"
    /\ UNCHANGED << isDev, req, stageErrors, rag, toolFailed, prompt, llm, remediationApplied,
                    clarificationMessage, finalStatus, response, thrown, requestCount,
                    requestLatency >>

\* the remediation stage (synchronous).  Nothing around it catches: a
\* failure of the callback is rethrown by the primitive and leaves
\* doOrchestrate
Remediation ==
    /\ pc = "remediation"
    /\ UNCHANGED << call, inflight >>
    /\ IF validateStageAttrs("remediation", StageAttrs("remediation"), isDev)
       THEN /\ Rejected(spans, ValidationError("remediation"))
            /\ UNCHANGED << remediationApplied, clarificationMessage >>
       ELSE LET sp1 == SpanOpen(spans, "remediation", "none")
                result == inlineRemediation(scores)
            IN  \/ /\ ~result.triggered
                   /\ remediationApplied' = result
                   /\ spans' = [sp1 EXCEPT ![Cur(sp1)] = SpanEndOk([@ EXCEPT !.status = "OK"])]
                   /\ pc' = "finalize"
                   /\ UNCHANGED << clarificationMessage, thrown >>
                \/ /\ result.triggered
                   /\ remediationApplied' = result
                   /\ clarificationMessage' = ClarificationText
                   /\ spans' = [sp1 EXCEPT
                                  ![1] = [@ EXCEPT !.remediation = "CLARIFICATION"],
                                  ![Cur(sp1)] = SpanEndOk(updateStatus([@ EXCEPT !.status = "OK"],
                                                                       "DEGRADED"))]
                   /\ pc' = "finalize"
                   /\ UNCHANGED thrown
                \/ \E err \in RemediationErrors :
                     /\ Rejected([sp1 EXCEPT ![Cur(sp1)] = SpanEndThrow(@, err)], err)
                     /\ UNCHANGED << remediationApplied, clarificationMessage >>
    /\ UNCHANGED << isDev, req, stageErrors, rag, toolFailed, prompt, llm, scores,
                    evaluationError, finalStatus, response, requestCount, requestLatency >>

\* stageErrors.find(e => e.error !== null)?.error
dominantError(errs) ==
    IF \E i \in 1..Len(errs) : errs[i].error # NoError
    THEN errs[CHOOSE i \in 1..Len(errs) :
                 /\ errs[i].error # NoError
                 /\ \A j \in 1..(i - 1) : errs[j].error = NoError].error
    ELSE NoError

requestCountAdd_Set(counter, tags) == << tags >>

\* m.requestCount.add(1, tags): one atomic increment of the process-wide
\* counter, kept as the list of the increments made
requestCountAdd(counter, tags) == Append(counter, tags)

finalAnswer_Raw(clarification, text) == text

\* clarificationMessage || llm.text
finalAnswer(clarification, text) == IF clarification # "" THEN clarification ELSE text

hasUsableResponse_NoStageError == ~hasStageErrors(stageErrors)

\* const hasUsableResponse = true
hasUsableResponse == TRUE

askResponse_NoReport(answer, sc, report) ==
    [answer |-> answer, eval |-> sc, remediation |-> NoReport]

\* the AskResponse doOrchestrate returns (answer.text, eval, remediation)
askResponse(answer, sc, report) ==
    [answer |-> answer, eval |-> sc, remediation |-> report]

\* status resolution, root span attributes, answer, metrics, response; the
\* root callback returns and the root span is closed on the success path
Finalize ==
    /\ pc = "finalize"
    /\ UNCHANGED << call, inflight >>
    /\ LET remediationSucceeded == remediationApplied.triggered /\ remediationApplied.finalMode # "NORMAL"
           status == IF remediationApplied.triggered
                     THEN "DEGRADED"
                     ELSE determineFinalStatus(stageErrors, remediationApplied.triggered,
                                               remediationSucceeded, hasUsableResponse)
           dominant == dominantError(stageErrors)
           answer == finalAnswer(clarificationMessage, llm.text)
           remediationTag == IF remediationApplied.triggered /\ Len(remediationApplied.actions) > 0
                             THEN remediationApplied.actions[1]
                             ELSE "none"
           root == [updateStatus(spans[1], status) EXCEPT
                      !.tfErrType = IF dominant # NoError THEN dominant.type ELSE @,
                      !.tfErrCode = IF dominant # NoError THEN dominant.code ELSE @,
                      !.remediation = IF remediationApplied.triggered
                                         /\ \E i \in 1..Len(remediationApplied.actions) :
                                               remediationApplied.actions[i] = "CLARIFICATION"
                                      THEN "CLARIFICATION" ELSE "none"]
       IN  /\ finalStatus' = status
           /\ requestLatency' = Append(requestLatency, [status |-> status, remediation |-> remediationTag])
           /\ requestCount' = requestCountAdd(requestCount, [status |-> status])
           /\ response' = askResponse(answer, scores, remediationApplied)
           /\ spans' = [spans EXCEPT ![1] = SpanEndOk(root)]
    /\ pc' = "done"
    /\ UNCHANGED << isDev, req, stageErrors, rag, toolFailed, prompt, llm, scores,
                    evaluationError, remediationApplied, clarificationMessage, thrown >>

Next ==
    \/ Start
    \/ RagOpen
    \/ RagReturn
    \/ ToolOpen
    \/ ToolReturn
    \/ LlmOpen
    \/ LlmReturn
    \/ Evaluation
    \/ Remediation
    \/ Finalize

Spec == Init /\ [][Next]_vars

(***************************************************************************)
(* Application of the status resolver to arbitrary arguments               *)
(***************************************************************************)
\* longest stage-outcome list handed to the resolver
MaxOutcomes == 3

OutcomeEntries ==
    { [stage |-> "rag", error |-> NoError],
      [stage |-> "rag", error |-> classifyError("rag", RawError("none", 0, "none", {}), NoHints)],
      [stage |-> "tool", error |-> classifyError("tool", ToolTimeoutError, NoHints)],
      [stage |-> "evaluation", error |-> classifyError("evaluation", RawError("none", 0, "evaluator failed", {}), NoHints)] }

OutcomeLists == UNION { [1..n -> OutcomeEntries] : n \in 0..MaxOutcomes }

ResolverArgs ==
    [stageErrors : OutcomeLists, remediationTriggered : BOOLEAN,
     remediationSucceeded : BOOLEAN, hasUsableResponse : BOOLEAN]

InitResolver ==
    /\ PipelineInit
    /\ inflight = << >>
    /\ \E a \in ResolverArgs :
          call = [fn |-> "determineFinalStatus", args |-> a, done |-> FALSE, result |-> "none"]

Resolve ==
    /\ call.fn = "determineFinalStatus"
    /\ ~call.done
    /\ call' = [call EXCEPT !.done = TRUE,
                            !.result = determineFinalStatus(call.args.stageErrors,
                                                            call.args.remediationTriggered,
                                                            call.args.remediationSucceeded,
                                                            call.args.hasUsableResponse)]
    /\ UNCHANGED << inflight, pc, isDev, req, spans, stageErrors, rag, toolFailed, prompt, llm, scores,
                    evaluationError, remediationApplied, clarificationMessage, finalStatus,
                    response, thrown, requestCount, requestLatency >>

NextResolver == Resolve

SpecResolver == InitResolver /\ [][NextResolver]_vars

Resolved == call.fn = "determineFinalStatus" /\ call.done

(***************************************************************************)
(* Application of the two remediation rules to the scores the evaluation   *)
(* stage can hand them                                                     *)
(***************************************************************************)
\* every EvalScores the evaluation stage produces: the evaluator's scores
\* with or without the chaos override, and the fallback scores
ProducibleScores ==
    { EvalScoresOf(basicEvaluate(hc, ft.ac, ft.phraseHit, ft.aq, ft.queryHit, ft.riskCount), ch) :
        hc \in BOOLEAN, ft \in EvalFeatures(AnswerText), ch \in BOOLEAN }
    \cup { fallbackScores("Evaluation engine failure") }

RemediationArgs == [scores : ProducibleScores, toolFailed : BOOLEAN]

InitRemediation ==
    /\ PipelineInit
    /\ inflight = << >>
    /\ \E a \in RemediationArgs :
          call = [fn |-> "remediation", args |-> a, done |-> FALSE, result |-> NoReport]

\* remediate(scores, toolFailed)
Remediate ==
    /\ call.fn = "remediation"
    /\ ~call.done
    /\ call' = [call EXCEPT !.fn = "remediate", !.done = TRUE,
                            !.result = remediate(call.args.scores, call.args.toolFailed)]
    /\ UNCHANGED << inflight, pc, isDev, req, spans, stageErrors, rag, toolFailed, prompt, llm, scores,
                    evaluationError, remediationApplied, clarificationMessage, finalStatus,
                    response, thrown, requestCount, requestLatency >>

\* the inline rule of doOrchestrate on the same scores
InlineRemediate ==
    /\ call.fn = "remediation"
    /\ ~call.done
    /\ call' = [call EXCEPT !.fn = "inlineRemediation", !.done = TRUE,
                            !.result = inlineRemediation(call.args.scores)]
    /\ UNCHANGED << inflight, pc, isDev, req, spans, stageErrors, rag, toolFailed, prompt, llm, scores,
                    evaluationError, remediationApplied, clarificationMessage, finalStatus,
                    response, thrown, requestCount, requestLatency >>

NextRemediation == Remediate \/ InlineRemediate

SpecRemediation == InitRemediation /\ [][NextRemediation]_vars

Remediated == call.fn \in {"remediate", "inlineRemediation"} /\ call.done

(***************************************************************************)
(* Application of the evaluator to arbitrary (query, context, answer)      *)
(***************************************************************************)
EvaluatorArgs ==
    [hasContext : BOOLEAN, ac : OverlapInputs, phraseHit : BOOLEAN, aq : OverlapInputs,
     queryHit : BOOLEAN, riskCount : 0..NumRiskPatterns]

InitEvaluator ==
    /\ PipelineInit
    /\ inflight = << >>
    /\ \E a \in EvaluatorArgs :
          call = [fn |-> "basicEvaluate", args |-> a, done |-> FALSE, result |-> "none"]

Evaluate ==
    /\ call.fn = "basicEvaluate"
    /\ ~call.done
    /\ call' = [call EXCEPT !.done = TRUE,
                            !.result = basicEvaluate(call.args.hasContext, call.args.ac,
                                                     call.args.phraseHit, call.args.aq,
                                                     call.args.queryHit, call.args.riskCount)]
    /\ UNCHANGED << inflight, pc, isDev, req, spans, stageErrors, rag, toolFailed, prompt, llm, scores,
                    evaluationError, remediationApplied, clarificationMessage, finalStatus,
                    response, thrown, requestCount, requestLatency >>

NextEvaluator == Evaluate

SpecEvaluator == InitEvaluator /\ [][NextEvaluator]_vars

Evaluated == call.fn = "basicEvaluate" /\ call.done

(***************************************************************************)
(* Application of detectPolicyRisk to answers matching any subset of the   *)
(* patterns                                                                *)
(***************************************************************************)
PatternSets == SUBSET { riskKeywords[i] : i \in 1..Len(riskKeywords) }

InitPolicyRisk ==
    /\ PipelineInit
    /\ inflight = << >>
    /\ \E m \in PatternSets :
          call = [fn |-> "detectPolicyRisk", args |-> m, done |-> FALSE, result |-> 0]

DetectPolicyRisk ==
    /\ call.fn = "detectPolicyRisk"
    /\ ~call.done
    /\ call' = [call EXCEPT !.done = TRUE,
                            !.result = detectPolicyRisk(countMatches(call.args, 1))]
    /\ UNCHANGED << inflight, pc, isDev, req, spans, stageErrors, rag, toolFailed, prompt, llm, scores,
                    evaluationError, remediationApplied, clarificationMessage, finalStatus,
                    response, thrown, requestCount, requestLatency >>

NextPolicyRisk == DetectPolicyRisk

SpecPolicyRisk == InitPolicyRisk /\ [][NextPolicyRisk]_vars

PolicyRiskDetected == call.fn = "detectPolicyRisk" /\ call.done

(***************************************************************************)
(* Application of the classifier to arbitrary stage, failure and hints     *)
(***************************************************************************)
\* the five stages and two values outside the stage union
ClassifierStages == {"rag", "tool", "llm", "evaluation", "remediation", "request", ""}

\* failures with and without code and message
ClassifierErrors ==
    { RawError(c, 0, m, {}) : c \in {"none", "TOOL_TIMEOUT", "ECONNREFUSED"},
                              m \in {"none", "connect ECONNREFUSED"} }

\* every combination of the four optional hints (all FALSE: no context)
HintSets == [timeout : BOOLEAN, rateLimit : BOOLEAN, providerDown : BOOLEAN, emptyResult : BOOLEAN]

ClassifierArgs == [stage : ClassifierStages, error : ClassifierErrors, context : HintSets]

InitClassifier ==
    /\ PipelineInit
    /\ inflight = << >>
    /\ \E a \in ClassifierArgs :
          call = [fn |-> "classifyError", args |-> a, done |-> FALSE, result |-> NoError]

Classify ==
    /\ call.fn = "classifyError"
    /\ ~call.done
    /\ call' = [call EXCEPT !.done = TRUE,
                            !.result = classifyError(call.args.stage, call.args.error,
                                                     call.args.context)]
    /\ UNCHANGED << inflight, pc, isDev, req, spans, stageErrors, rag, toolFailed, prompt, llm, scores,
                    evaluationError, remediationApplied, clarificationMessage, finalStatus,
                    response, thrown, requestCount, requestLatency >>

NextClassifier == Classify

SpecClassifier == InitClassifier /\ [][NextClassifier]_vars

Classified == call.fn = "classifyError" /\ call.done

(***************************************************************************)
(* GeminiProvider.generate: the loop over the model candidates.  Each      *)
(* iteration awaits model.generateContent; the step below runs from one    *)
(* settlement to the next await, the return or the throw.                  *)
(***************************************************************************)
\* this.defaultModel
defaultModel == "gemini-2.5-flash"

\* the models a caller is taken to request: none (the default applies), the
\* one that is also the last list entry, and one that is not in the list
RequestedModels == {"undefined", "gemini-pro-latest", "gemini-1.5-pro"}

modelCandidates(requestedModel) ==
    << requestedModel, "gemini-2.5-flash", "gemini-2.0-flash", "gemini-2.0-flash-001",
       "gemini-flash-latest", "gemini-2.5-pro", "gemini-pro-latest" >>

\* what one attempt can end with.  ok: generateContent resolved (usage: the
\* response has usageMetadata); otherwise it rejected with an error of this
\* status, whose message does or does not include 'not found' / 'limit: 0'
\* and whose details do or do not carry a retry delay
GeminiOutcome(ok, usage, status, notFound, limitZero, retryDelay) ==
    [ok |-> ok, usage |-> usage, status |-> status, notFound |-> notFound,
     limitZero |-> limitZero, retryDelay |-> retryDelay]

Success == GeminiOutcome(TRUE, TRUE, 0, FALSE, FALSE, FALSE)

GeminiOutcomes ==
    { Success,
      GeminiOutcome(TRUE, FALSE, 0, FALSE, FALSE, FALSE),
      GeminiOutcome(FALSE, FALSE, 404, FALSE, FALSE, FALSE),
      GeminiOutcome(FALSE, FALSE, 0, TRUE, FALSE, FALSE),
      GeminiOutcome(FALSE, FALSE, 429, FALSE, TRUE, FALSE),
      GeminiOutcome(FALSE, FALSE, 429, FALSE, FALSE, TRUE),
      GeminiOutcome(FALSE, FALSE, 429, FALSE, FALSE, FALSE),
      GeminiOutcome(FALSE, FALSE, 500, FALSE, FALSE, FALSE),
      GeminiOutcome(FALSE, FALSE, 0, FALSE, FALSE, FALSE) }

\* the error the catch block receives: the rejection, or the Error thrown in
\* the try block for a response without usageMetadata
caughtError(o) ==
    IF o.ok THEN GeminiOutcome(FALSE, FALSE, 0, FALSE, FALSE, FALSE) ELSE o

catchDecision_AlwaysNext(err, modelName, lastName) == "continue"

\* the catch block of one iteration: continue with the next candidate, throw
\* a new rate-limit Error, or rethrow the error caught
catchDecision(err, modelName, lastName) ==
    LET is404 == err.status = 404 \/ err.notFound
        is429NoQuota == err.status = 429 /\ err.limitZero
    IN  IF is404 \/ is429NoQuota THEN "continue"
        ELSE IF err.status = 429 /\ ~err.limitZero
             THEN IF err.retryDelay /\ modelName = lastName THEN "throw_rate_limited"
                  ELSE "continue"
             ELSE "rethrow"

NoGeneration == [kind |-> "none", model |-> "none", error |-> Success]

GenerateArgs == [model : RequestedModels]

InitGenerate ==
    /\ PipelineInit
    /\ inflight = << >>
    /\ \E a \in GenerateArgs :
          call = [fn |-> "generate", args |-> a, done |-> FALSE, result |-> NoGeneration,
                  tried |-> << >>, last |-> Success]

\* the attempt on the next candidate settles (tried: the candidates attempted
\* so far; last: what the latest attempt ended with)
GenerateAttempt ==
    /\ call.fn = "generate"
    /\ ~call.done
    /\ LET requestedModel == IF call.args.model = "undefined" THEN defaultModel
                             ELSE call.args.model
           candidates == modelCandidates(requestedModel)
           i == Len(call.tried) + 1
           modelName == candidates[i]
       IN  /\ i <= Len(candidates)
           /\ \E o \in GeminiOutcomes :
                LET err == caughtError(o)
                    decision == catchDecision(err, modelName, candidates[Len(candidates)])
                    result ==
                        IF o.ok /\ o.usage
                        THEN [kind |-> "returned", model |-> modelName, error |-> Success]
                        ELSE IF decision = "rethrow"
                        THEN [kind |-> "rethrown", model |-> modelName, error |-> err]
                        ELSE IF decision = "throw_rate_limited"
                        THEN [kind |-> "rate_limited", model |-> modelName, error |-> err]
                        ELSE IF i = Len(candidates)
                        THEN [kind |-> "all_failed", model |-> modelName, error |-> err]
                        ELSE NoGeneration
                IN  call' = [call EXCEPT !.tried = Append(@, modelName),
                                         !.last = o,
                                         !.result = result,
                                         !.done = (result # NoGeneration)]
    /\ UNCHANGED << inflight, pc, isDev, req, spans, stageErrors, rag, toolFailed, prompt, llm, scores,
                    evaluationError, remediationApplied, clarificationMessage, finalStatus,
                    response, thrown, requestCount, requestLatency >>

NextGenerate == GenerateAttempt

\* every awaited generateContent call settles
SpecGenerate == InitGenerate /\ [][NextGenerate]_vars /\ WF_vars(GenerateAttempt)

Generating == call.fn = "generate"

(***************************************************************************)
(* One call of the stage primitive with arbitrary stage attributes and a   *)
(* callback that returns                                                   *)
(***************************************************************************)
PrimitiveStages == {"request", "rag", "tool", "llm", "evaluation", "remediation"}

\* stage and the keys of stageAttrs whose value is neither undefined nor null
PrimitiveArgs ==
    UNION { [stage : {st}, attrs : SUBSET RequiredAttrs(st)] : st \in PrimitiveStages }

InitPrimitive ==
    /\ PipelineInit
    /\ inflight = << >>
    /\ \E a \in PrimitiveArgs :
          call = [fn |-> "startStageSpan", args |-> a, done |-> FALSE,
                  result |-> [threw |-> FALSE, callbackRan |-> FALSE]]

\* validateStageAttrs, then startActiveSpan, the callback and span.end()
StartStageSpan ==
    /\ call.fn = "startStageSpan"
    /\ ~call.done
    /\ IF validateStageAttrs(call.args.stage, call.args.attrs, isDev)
       THEN /\ call' = [call EXCEPT !.done = TRUE,
                                    !.result = [threw |-> TRUE, callbackRan |-> FALSE]]
            /\ UNCHANGED spans
       ELSE LET sp1 == SpanOpen(spans, call.args.stage, "none")
            IN  /\ call' = [call EXCEPT !.done = TRUE,
                                        !.result = [threw |-> FALSE, callbackRan |-> TRUE]]
                /\ spans' = [sp1 EXCEPT ![Cur(sp1)] = SpanEndOk(@)]
    /\ UNCHANGED << inflight, pc, isDev, req, stageErrors, rag, toolFailed, prompt, llm, scores,
                    evaluationError, remediationApplied, clarificationMessage, finalStatus,
                    response, thrown, requestCount, requestLatency >>

NextPrimitive == StartStageSpan

SpecPrimitive == InitPrimitive /\ [][NextPrimitive]_vars

PrimitiveReturned == call.fn = "startStageSpan" /\ call.done

(***************************************************************************)
(* Several orchestrate calls in flight on the one event loop.  A request   *)
(* is suspended at the awaits of doOrchestrate (retrieve, the tool call,   *)
(* the span recording a failed tool call, generate); what runs between two *)
(* awaits runs without interruption.  Only what decides the resolved       *)
(* status and the request counter is kept per request.                     *)
(***************************************************************************)
\* number of concurrent requests
MaxRequests == 2

Requests == 1..MaxRequests

\* what the evaluator returns for one concurrent request: its scores on a
\* few features of the answer, or a throw
NoEval == [threw |-> FALSE, ev |-> basicEvaluate(FALSE, <<0, 0>>, FALSE, <<0, 0>>, FALSE, 0)]

ConcurrentEvals(hasContext, text) ==
    { [threw |-> FALSE, ev |-> basicEvaluate(hasContext, ov, FALSE, ov, FALSE, 0)] :
        ov \in IF text = "" THEN {<<0, 0>>} ELSE {<<0, 0>>, <<MaxTokens, MaxTokens>>} }
    \cup { [NoEval EXCEPT !.threw = TRUE] }

\* the failure retrieve rejects with in the concurrent runs
ConcurrentRagErrors == { e \in RagErrors : e.code = "ECONNREFUSED" }

NewRequest ==
    [pc |-> "idle", breakTool |-> FALSE, ragError |-> NoRaw, text |-> "", evalResult |-> NoEval,
     stageErrors |-> << >>, toolFailed |-> FALSE, scores |-> NoScores, remediation |-> NoReport,
     status |-> "none", answer |-> ""]

InitConcurrent ==
    /\ PipelineInit
    /\ call = NoCall
    /\ inflight = [r \in Requests |-> NewRequest]

stageErrorsScope_Module(r) == 1

\* const stageErrors = [] inside doOrchestrate: the call of request r appends
\* to and reads the array of its own activation
stageErrorsScope(r) == r

\* orchestrate(req) is called and runs up to the await of retrieve
ConcurrentStart(r) ==
    /\ inflight[r].pc = "idle"
    /\ \E breakTool \in BOOLEAN :
          inflight' = [inflight EXCEPT ![r].pc = "rag_await", ![r].breakTool = breakTool]
    /\ UNCHANGED requestCount

\* retrieve settles (with the demo context, or with a throw); the request
\* runs up to the await of the tool call
ConcurrentRagReturn(r) ==
    /\ inflight[r].pc = "rag_await"
    /\ \/ inflight' = [inflight EXCEPT
                          ![r].pc = "tool_await",
                          ![stageErrorsScope(r)].stageErrors =
                              Append(@, [stage |-> "rag", error |-> NoError])]
       \/ \E err \in ConcurrentRagErrors :
             inflight' = [inflight EXCEPT
                            ![r].pc = "tool_await",
                            ![r].ragError = err,
                            ![stageErrorsScope(r)].stageErrors =
                                Append(@, [stage |-> "rag",
                                           error |-> classifyError("rag", err,
                                                        [NoHints EXCEPT !.providerDown = TRUE])])]
    /\ UNCHANGED requestCount

\* the tool call settles; after a failure the request awaits the span that
\* records it, otherwise generate
ConcurrentToolReturn(r) ==
    /\ inflight[r].pc = "tool_await"
    /\ inflight' = [inflight EXCEPT
                      ![r].pc = IF inflight[r].breakTool THEN "tool_error_await" ELSE "llm_await",
                      ![r].toolFailed = inflight[r].breakTool]
    /\ UNCHANGED requestCount

\* the span recording the failed tool call settles
ConcurrentToolErrorReturn(r) ==
    /\ inflight[r].pc = "tool_error_await"
    /\ inflight' = [inflight EXCEPT
                      ![r].pc = "llm_await",
                      ![stageErrorsScope(r)].stageErrors =
                          Append(@, [stage |-> "tool",
                                     error |-> classifyError("tool", ToolTimeoutError,
                                                  [NoHints EXCEPT !.timeout = TRUE])])]
    /\ UNCHANGED requestCount

\* generate settles: a throw rejects the call; otherwise evaluation,
\* remediation, status resolution, the answer and the counter increment run
\* in one go
ConcurrentLlmReturn(r) ==
    /\ inflight[r].pc = "llm_await"
    /\ \/ /\ \E err \in LlmErrors \cup RemediationErrors :
                inflight' = [inflight EXCEPT ![r].pc = "rejected"]
          /\ UNCHANGED requestCount
       \/ \E text \in LlmTexts :
          \E result \in ConcurrentEvals(inflight[r].ragError = NoRaw, text) :
             LET sc == IF result.threw THEN fallbackScores("Evaluation engine failure")
                       ELSE EvalScoresOf(result.ev, FALSE)
                 report == inlineRemediation(sc)
                 status == IF report.triggered THEN "DEGRADED"
                           ELSE determineFinalStatus(inflight[stageErrorsScope(r)].stageErrors,
                                                     report.triggered,
                                                     report.triggered /\ report.finalMode # "NORMAL",
                                                     TRUE)
                 answer == finalAnswer(IF report.triggered THEN ClarificationText ELSE "", text)
             IN  /\ inflight' = [inflight EXCEPT ![r].pc = "done",
                                                 ![r].text = text,
                                                 ![r].evalResult = result,
                                                 ![r].scores = sc,
                                                 ![r].remediation = report,
                                                 ![r].status = status,
                                                 ![r].answer = answer]
                 /\ requestCount' = requestCountAdd(requestCount, [status |-> status])

ConcurrentStep(r) ==
    /\ \/ ConcurrentStart(r)
       \/ ConcurrentRagReturn(r)
       \/ ConcurrentToolReturn(r)
       \/ ConcurrentToolErrorReturn(r)
       \/ ConcurrentLlmReturn(r)
    /\ UNCHANGED << pc, isDev, req, spans, stageErrors, rag, toolFailed, prompt, llm, scores,
                    evaluationError, remediationApplied, clarificationMessage, finalStatus,
                    response, thrown, requestLatency, call >>

NextConcurrent == \E r \in Requests : ConcurrentStep(r)

SpecConcurrent == InitConcurrent /\ [][NextConcurrent]_vars

Completed == { r \in DOMAIN inflight : inflight[r].pc = "done" }

\* doOrchestrate run from its first line to its return with nothing else
\* running: the outcome of one request as a function of what its
\* collaborators returned
doOrchestrate(ragError, breakTool, text, evalResult) ==
    LET ragEntry == [stage |-> "rag",
                     error |-> IF ragError = NoRaw THEN NoError
                               ELSE classifyError("rag", ragError,
                                                  [NoHints EXCEPT !.providerDown = TRUE])]
        toolEntry == [stage |-> "tool",
                      error |-> classifyError("tool", ToolTimeoutError,
                                              [NoHints EXCEPT !.timeout = TRUE])]
        errs == IF breakTool THEN << ragEntry, toolEntry >> ELSE << ragEntry >>
        sc == IF evalResult.threw THEN fallbackScores("Evaluation engine failure")
              ELSE EvalScoresOf(evalResult.ev, FALSE)
        report == inlineRemediation(sc)
        status == IF report.triggered THEN "DEGRADED"
                  ELSE determineFinalStatus(errs, report.triggered,
                                            report.triggered /\ report.finalMode # "NORMAL", TRUE)
    IN  [stageErrors |-> errs, toolFailed |-> breakTool, scores |-> sc, remediation |-> report,
         status |-> status,
         answer |-> finalAnswer(IF report.triggered THEN ClarificationText ELSE "", text)]

(***************************************************************************)
(* Properties                                                              *)
(***************************************************************************)
Finished == pc \in {"done", "rejected"}

SpanOf(stage) == { i \in 1..Len(spans) : spans[i].stage = stage }

\* C1: every span opened by startStageSpan / startStageSpanSync is ended
\* exactly once, on the return path and on the throw path: no span is ever
\* ended twice, and when orchestrate has settled every opened span has been
\* ended once (opened spans = ended spans).
C1_SpanSymmetry ==
    /\ \A i \in 1..Len(spans) : spans[i].ended <= 1
    /\ Finished => \A i \in 1..Len(spans) : spans[i].ended = 1

\* a run in which a callback threw (generation) and the spans are closed
C1_Witness ==
    /\ pc = "rejected"
    /\ thrown \in LlmErrors
    /\ Len(spans) >= 4
    /\ \A i \in 1..Len(spans) : spans[i].ended = 1

\* C2: when the generation call throws, orchestrate rejects with that
\* failure and builds no response; no evaluation or remediation span exists
\* and neither stage has produced a result; the generation span and the
\* root span are both ended with status ERROR.
C2_GenerationFailureFatal ==
    (pc = "rejected" /\ thrown \in LlmErrors) =>
        /\ response = NoResponse
        /\ finalStatus = "none"
        /\ requestCount = << >>
        /\ SpanOf("evaluation") = {} /\ SpanOf("remediation") = {}
        /\ scores = NoScores /\ remediationApplied = NoReport
        /\ spans[Len(spans)].stage = "llm"
        /\ spans[Len(spans)].status = "ERROR" /\ spans[Len(spans)].otel = "ERROR"
        /\ spans[Len(spans)].ended = 1
        /\ spans[1].stage = "request"
        /\ spans[1].status = "ERROR" /\ spans[1].otel = "ERROR"
        /\ spans[1].ended = 1

C2_Witness ==
    /\ pc = "rejected"
    /\ thrown = RawError("none", 429, "Too Many Requests", {})
    /\ spans[Len(spans)].stage = "llm"
    /\ spans[1].status = "ERROR"

\* C3: determineFinalStatus returns ERROR exactly when hasUsableResponse is
\* false, whatever the stage outcomes and the remediation flags; with a
\* usable response a stage error never gives ERROR.
C3_ErrorIffNoUsableResponse ==
    Resolved => ((call.result = "ERROR") <=> ~call.args.hasUsableResponse)

\* no usable response, and nothing else that could explain an ERROR
C3_Witness ==
    /\ Resolved
    /\ ~call.args.hasUsableResponse
    /\ ~hasStageErrors(call.args.stageErrors)
    /\ ~call.args.remediationTriggered
    /\ call.result = "ERROR"

\* C4: with at least one non-null stage error and a usable response,
\* determineFinalStatus returns DEGRADED for all four combinations of
\* remediationTriggered and remediationSucceeded.
C4_StageErrorDegrades ==
    (Resolved /\ hasStageErrors(call.args.stageErrors) /\ call.args.hasUsableResponse)
        => call.result = "DEGRADED"

\* a stage error with remediation triggered but not succeeded
C4_Witness ==
    /\ Resolved
    /\ hasStageErrors(call.args.stageErrors)
    /\ call.args.hasUsableResponse
    /\ call.args.remediationTriggered
    /\ ~call.args.remediationSucceeded
    /\ call.result = "DEGRADED"

\* the retrieval callback took its catch block (it marks the span's
\* OpenTelemetry status ERROR)
RagThrew == SpanOf("rag") # {} /\ \E i \in SpanOf("rag") : spans[i].otel = "ERROR"

\* C5: when the retrieval call throws, the stage result is the empty
\* context with docs = 0 and a retrieval error is the first stage outcome;
\* the failure does not leave the pipeline (orchestrate never rejects with
\* it), the tool stage is next, and a run that completes has run the tool,
\* generation, evaluation and remediation stages and returns a response.
C5_RetrievalFailureContained ==
    (RagThrew /\ pc # "rag_await") =>
        /\ rag = [context |-> "", docs |-> 0]
        /\ Len(stageErrors) >= 1
        /\ stageErrors[1].stage = "rag"
        /\ stageErrors[1].error.type = "RAG_ERROR"
        /\ pc \in {"tool", "tool_await", "llm", "llm_await", "evaluation", "remediation",
                   "finalize", "done", "rejected"}
        /\ pc = "rejected" => thrown \notin RagErrors
        /\ pc = "done" =>
              /\ SpanOf("tool") # {} /\ SpanOf("llm") # {}
              /\ SpanOf("evaluation") # {} /\ SpanOf("remediation") # {}
              /\ response # NoResponse
              /\ response.eval = scores

C5_Witness ==
    /\ RagThrew
    /\ pc = "done"
    /\ rag.docs = 0
    /\ response.remediation.finalMode \in {"NORMAL", "DEGRADED"}

\* C6: when the tool call throws, toolFailed is true and a tool error is in
\* the stage-outcome list; the failure does not leave the pipeline, and the
\* generation stage receives the prompt built from the input text and the
\* retrieved context alone (the same as after a successful tool call).
C6_ToolFailureContained ==
    (req.chaos.breakTool /\ pc \in {"llm", "llm_await", "evaluation", "remediation",
                                    "finalize", "done", "rejected"}) =>
        /\ toolFailed
        /\ \E i \in 1..Len(stageErrors) :
              stageErrors[i].stage = "tool" /\ stageErrors[i].error.code = "TOOL_TIMEOUT"
        /\ pc # "llm" =>
              /\ prompt = << "User: ", req.text, "\nContext: ", rag.context >>
              /\ SpanOf("llm") # {}
        /\ pc = "rejected" => thrown # ToolTimeoutError

C6_Witness ==
    /\ req.chaos.breakTool
    /\ toolFailed
    /\ pc = "llm_await"
    /\ rag.context # ""

\* the evaluation callback took its catch block
EvaluatorThrew == evaluationError /\ SpanOf("evaluation") # {}

\* C7: when the evaluator throws, the scores are faithfulness 0.5,
\* relevance 0.5, policyRisk 0.1, hallucination 0.3, overall 0.5 with the
\* single reason "Evaluation engine failure"; the remediation stage runs on
\* them and a completed run returns them in its response.
C7_EvaluationFallback ==
    EvaluatorThrew =>
        /\ scores = [faithfulness |-> SCALE \div 2, relevance |-> SCALE \div 2,
                     policyRisk |-> SCALE \div 10, hallucination |-> (3 * SCALE) \div 10,
                     overall |-> SCALE \div 2, reasons |-> {"Evaluation engine failure"}]
        /\ pc \in {"remediation", "finalize", "done", "rejected"}
        /\ pc \in {"finalize", "done"} =>
              /\ SpanOf("remediation") # {}
              /\ remediationApplied.triggered
              /\ remediationApplied.actions = << "CLARIFICATION" >>
        /\ pc = "rejected" => thrown \notin EvalErrors
        /\ pc = "done" => response.eval = scores

C7_Witness ==
    /\ EvaluatorThrew
    /\ pc = "done"
    /\ response.eval.overall = SCALE \div 2
    /\ response.remediation.triggered

\* C8 (as claimed): orchestrate rejects only on a generation failure; a
\* failure raised inside the remediation stage is contained.
C8_OnlyGenerationRejects ==
    pc = "rejected" => thrown \in LlmErrors

\* C9 (as claimed): scores with policyRisk > 0.7 give the report SAFE_MODE /
\* SAFE whatever toolFailed and the overall score are, and the answer is
\* the safety-refusal message.
C9_PolicyRiskSafeMode ==
    (pc \in {"finalize", "done"} /\ scores.policyRisk > (7 * SCALE) \div 10) =>
        /\ remediationApplied.actions = << "SAFE_MODE" >>
        /\ remediationApplied.finalMode = "SAFE"
        /\ pc = "done" => response.answer = SafeModeText

C11_ToolFailureFallback ==
    (pc \in {"finalize", "done"} /\ toolFailed /\ scores.policyRisk <= (7 * SCALE) \div 10) =>
        /\ remediationApplied.actions = << "FALLBACK_TOOL" >>
        /\ remediationApplied.finalMode = "DEGRADED"
        /\ pc = "done" => response.answer = withFallbackNotice(llm.text)

\* C12: every remediation report, of remediate and of the inline rule, has
\* at most one action, and in every report triggered is true if and only
\* if the action list is non-empty if and only if finalMode is not NORMAL.
C12_ReportShape ==
    Remediated =>
        /\ Len(call.result.actions) <= 1
        /\ call.result.triggered <=> Len(call.result.actions) > 0
        /\ Len(call.result.actions) > 0 <=> call.result.finalMode # "NORMAL"

\* remediate on scores for which all three of its rules apply: one action
C12_Witness ==
    /\ call.fn = "remediate"
    /\ call.done
    /\ call.args.toolFailed
    /\ call.args.scores.policyRisk > (7 * SCALE) \div 10
    /\ call.args.scores.faithfulness < (8 * SCALE) \div 10
    /\ call.result.actions = << "SAFE_MODE" >>
    /\ call.result.triggered

C14_SingleResolvedStatus ==
    pc = "done" =>
        LET triggered == response.remediation.triggered
            succeeded == triggered /\ response.remediation.finalMode # "NORMAL"
            resolved == determineFinalStatus(stageErrors, triggered, succeeded, TRUE)
        IN  /\ spans[1].ended = 1
            /\ spans[1].status = resolved
            /\ Len(requestLatency) = 1
            /\ requestLatency[1].status = resolved
            /\ Len(requestCount) = 1
            /\ requestCount[1].status = resolved

\* a stage span closed with ERROR, remediation not triggered, and the root
\* span and both metrics carry DEGRADED
C14_Witness ==
    /\ pc = "done"
    /\ ~response.remediation.triggered
    /\ \E i \in SpanOf("tool") : spans[i].status = "ERROR" /\ spans[i].ended = 1
    /\ spans[1].status = "DEGRADED"
    /\ requestLatency[1].status = "DEGRADED"
    /\ requestCount[1].status = "DEGRADED"

C16_DominantError ==
    pc = "done" =>
        LET expected == IF RagThrew THEN << "RAG_ERROR", "RAG_PROVIDER_DOWN" >>
                        ELSE IF toolFailed THEN << "TIMEOUT", "TOOL_TIMEOUT" >>
                        ELSE IF evaluationError THEN << "EVALUATION_ERROR", "EVAL_MODEL_FAILURE" >>
                        ELSE << "none", "none" >>
        IN  << spans[1].tfErrType, spans[1].tfErrCode >> = expected

\* C17 (as claimed): when a request completes, the stage-outcome list holds
\* exactly one entry for each of the five stages, in pipeline order.
C17_FiveOutcomes ==
    pc = "done" =>
        /\ Len(stageErrors) = 5
        /\ [i \in 1..Len(stageErrors) |-> stageErrors[i].stage]
              = << "rag", "tool", "llm", "evaluation", "remediation" >>

\* C18 (as claimed): in the EvalScores of every response, overall equals
\* clamp01(0.3 faithfulness + 0.3 relevance + 0.2 (1 - policyRisk)
\* + 0.2 (1 - hallucination)) of the other four scores of that EvalScores,
\* also under the policyRisk chaos override and with the fallback scores.
C18_OverallIsWeightedSum ==
    pc = "done" =>
        response.eval.overall
          = clamp01(Weighted(response.eval.faithfulness, response.eval.relevance,
                             response.eval.policyRisk, response.eval.hallucination))

\* C19: for every (query, context, answer), the five values returned by
\* basicEvaluate (faithfulness, relevance, policy_risk, hallucination,
\* overall) lie in [0, 1], on the clamped return path and on the early
\* return taken when the relevance boost applies.
C19_ScoresInUnitInterval ==
    Evaluated =>
        /\ call.result.faithfulness \in 0..SCALE
        /\ call.result.relevance \in 0..SCALE
        /\ call.result.policy_risk \in 0..SCALE
        /\ call.result.hallucination \in 0..SCALE
        /\ call.result.overall \in 0..SCALE

\* the early return with the boost cut off at 1 and every score at an end
\* of the interval
C19_Witness ==
    /\ Evaluated
    /\ call.args.queryHit
    /\ calculateOverlap(call.args.aq) + (3 * SCALE) \div 10 > SCALE
    /\ call.result.relevance = SCALE
    /\ call.result.faithfulness = SCALE
    /\ call.result.hallucination = 0
    /\ call.result.policy_risk = 0
    /\ call.result.overall = SCALE

\* C21: for every evaluator result, on both return paths of basicEvaluate:
\* with a non-empty context hallucination = 1 - faithfulness (their sum is
\* 1); with an empty context faithfulness = 0.5 and hallucination = 0.3.
C21_HallucinationComplement ==
    Evaluated =>
        /\ call.args.hasContext =>
              /\ call.result.hallucination = SCALE - call.result.faithfulness
              /\ call.result.faithfulness + call.result.hallucination = SCALE
        /\ ~call.args.hasContext =>
              /\ call.result.faithfulness = SCALE \div 2
              /\ call.result.hallucination = (3 * SCALE) \div 10

\* the early return with a context and the key-phrase boost applied
C21_Witness ==
    /\ Evaluated
    /\ call.args.hasContext
    /\ call.args.queryHit
    /\ call.args.phraseHit
    /\ call.result.faithfulness = calculateOverlap(call.args.ac) + SCALE \div 5
    /\ call.result.faithfulness < SCALE
    /\ call.result.hallucination = SCALE - call.result.faithfulness

\* C22: policy risk equals min(k / 3, 1) where k is the number of the six
\* risk patterns that match the answer, each counted at most once; an
\* answer matching the credit-card pattern and the email pattern has policy
\* risk >= 2/3; the value exceeds the 0.7 threshold exactly when k >= 3.
C22_PolicyRiskValue ==
    PolicyRiskDetected =>
        LET k == Cardinality(call.args)
        IN  /\ 3 * call.result = (IF k >= 3 THEN 3 * SCALE ELSE k * SCALE)
            /\ {"credit_card", "email"} \subseteq call.args => 3 * call.result >= 2 * SCALE
            /\ call.result > (7 * SCALE) \div 10 <=> k >= 3

\* exactly the credit-card and email patterns match: 2/3, below 0.7
C22_Witness ==
    /\ PolicyRiskDetected
    /\ call.args = {"credit_card", "email"}
    /\ 3 * call.result = 2 * SCALE
    /\ call.result < (7 * SCALE) \div 10

\* C23: classifyError is total and closed: for every stage value, also one
\* outside the five stages, every raw error, also one without message and
\* code, and every hint combination, it returns a classification whose
\* type and code belong to the ErrorType / ErrorCode enumerations, and an
\* unrecognized stage yields UNKNOWN / UNKNOWN.
C23_ClassifierClosed ==
    Classified =>
        /\ call.result.type \in ErrorType
        /\ call.result.code \in ErrorCode
        /\ call.args.stage \notin {"rag", "tool", "llm", "evaluation", "remediation"} =>
              /\ call.result.type = "UNKNOWN"
              /\ call.result.code = "UNKNOWN"

\* an unrecognized stage with a failure carrying a raw code, hints set
C23_Witness ==
    /\ Classified
    /\ call.args.stage = "request"
    /\ call.args.error.code = "ECONNREFUSED"
    /\ call.args.context.timeout
    /\ call.result.type = "UNKNOWN"
    /\ call.result.code = "UNKNOWN"

\* C24 (as claimed): for each row of the mapping table (stage with exactly
\* the listed hint, or no hint for a default row) classifyError returns
\* exactly the listed (type, code), the retrieval rows being
\* TIMEOUT / RETRIEVAL_TIMEOUT, RETRIEVAL_ERROR / RETRIEVAL_PROVIDER_DOWN and
\* RETRIEVAL_ERROR / RETRIEVAL_EMPTY_RESULT; the message is the raw failure's
\* message text, or "Unknown error" when the failure has none.
C24_MappingTable ==
    Classified =>
        LET stage == call.args.stage
            e == call.args.error
            h == call.args.context
            none == ~h.timeout /\ ~h.rateLimit /\ ~h.providerDown /\ ~h.emptyResult
            onlyTimeout == h.timeout /\ ~h.rateLimit /\ ~h.providerDown /\ ~h.emptyResult
            onlyRateLimit == ~h.timeout /\ h.rateLimit /\ ~h.providerDown /\ ~h.emptyResult
            onlyProviderDown == ~h.timeout /\ ~h.rateLimit /\ h.providerDown /\ ~h.emptyResult
            onlyEmptyResult == ~h.timeout /\ ~h.rateLimit /\ ~h.providerDown /\ h.emptyResult
            got == << call.result.type, call.result.code >>
        IN  /\ (stage = "rag" /\ onlyTimeout) => got = << "TIMEOUT", "RETRIEVAL_TIMEOUT" >>
            /\ (stage = "rag" /\ onlyProviderDown) => got = << "RETRIEVAL_ERROR", "RETRIEVAL_PROVIDER_DOWN" >>
            /\ (stage = "rag" /\ onlyEmptyResult) => got = << "RETRIEVAL_ERROR", "RETRIEVAL_EMPTY_RESULT" >>
            /\ (stage = "tool" /\ (onlyTimeout \/ e.code = "TOOL_TIMEOUT")) =>
                  got = << "TIMEOUT", "TOOL_TIMEOUT" >>
            /\ (stage = "tool" /\ onlyProviderDown /\ e.code # "TOOL_TIMEOUT") =>
                  got = << "TOOL_ERROR", "TOOL_UNAVAILABLE" >>
            /\ (stage = "tool" /\ none /\ e.code # "TOOL_TIMEOUT") =>
                  got = << "TOOL_ERROR", "TOOL_BAD_RESPONSE" >>
            /\ (stage = "llm" /\ onlyRateLimit) => got = << "RATE_LIMIT", "LLM_RATE_LIMIT" >>
            /\ (stage = "llm" /\ onlyProviderDown) => got = << "LLM_ERROR", "LLM_PROVIDER_DOWN" >>
            /\ (stage = "llm" /\ none) => got = << "LLM_ERROR", "LLM_CONTEXT_TOO_LARGE" >>
            /\ stage = "evaluation" => got = << "EVALUATION_ERROR", "EVAL_MODEL_FAILURE" >>
            /\ stage = "remediation" => got = << "REMEDIATION_ERROR", "REMEDIATION_FALLBACK_FAILED" >>
            /\ stage \in {"request", ""} => got = << "UNKNOWN", "UNKNOWN" >>
            /\ call.result.message = (IF e.message = "none" THEN "Unknown error" ELSE e.message)

\* C24 (amended): the same table with the retrieval rows as the classifier
\* returns them: TIMEOUT / RAG_TIMEOUT, RAG_ERROR / RAG_PROVIDER_DOWN and
\* RAG_ERROR / RAG_EMPTY_RESULT; every other row and the message as listed.
C24_MappingTableRag ==
    Classified =>
        LET stage == call.args.stage
            e == call.args.error
            h == call.args.context
            none == ~h.timeout /\ ~h.rateLimit /\ ~h.providerDown /\ ~h.emptyResult
            onlyTimeout == h.timeout /\ ~h.rateLimit /\ ~h.providerDown /\ ~h.emptyResult
            onlyRateLimit == ~h.timeout /\ h.rateLimit /\ ~h.providerDown /\ ~h.emptyResult
            onlyProviderDown == ~h.timeout /\ ~h.rateLimit /\ h.providerDown /\ ~h.emptyResult
            onlyEmptyResult == ~h.timeout /\ ~h.rateLimit /\ ~h.providerDown /\ h.emptyResult
            got == << call.result.type, call.result.code >>
        IN  /\ (stage = "rag" /\ onlyTimeout) => got = << "TIMEOUT", "RAG_TIMEOUT" >>
            /\ (stage = "rag" /\ onlyProviderDown) => got = << "RAG_ERROR", "RAG_PROVIDER_DOWN" >>
            /\ (stage = "rag" /\ onlyEmptyResult) => got = << "RAG_ERROR", "RAG_EMPTY_RESULT" >>
            /\ (stage = "tool" /\ (onlyTimeout \/ e.code = "TOOL_TIMEOUT")) =>
                  got = << "TIMEOUT", "TOOL_TIMEOUT" >>
            /\ (stage = "tool" /\ onlyProviderDown /\ e.code # "TOOL_TIMEOUT") =>
                  got = << "TOOL_ERROR", "TOOL_UNAVAILABLE" >>
            /\ (stage = "tool" /\ none /\ e.code # "TOOL_TIMEOUT") =>
                  got = << "TOOL_ERROR", "TOOL_BAD_RESPONSE" >>
            /\ (stage = "llm" /\ onlyRateLimit) => got = << "RATE_LIMIT", "LLM_RATE_LIMIT" >>
            /\ (stage = "llm" /\ onlyProviderDown) => got = << "LLM_ERROR", "LLM_PROVIDER_DOWN" >>
            /\ (stage = "llm" /\ none) => got = << "LLM_ERROR", "LLM_CONTEXT_TOO_LARGE" >>
            /\ stage = "evaluation" => got = << "EVALUATION_ERROR", "EVAL_MODEL_FAILURE" >>
            /\ stage = "remediation" => got = << "REMEDIATION_ERROR", "REMEDIATION_FALLBACK_FAILED" >>
            /\ stage \in {"request", ""} => got = << "UNKNOWN", "UNKNOWN" >>
            /\ call.result.message = (IF e.message = "none" THEN "Unknown error" ELSE e.message)

\* the tool row reached through the failure's code, with no hint and no
\* message text
C24_Witness ==
    /\ Classified
    /\ call.args.stage = "tool"
    /\ call.args.error.code = "TOOL_TIMEOUT"
    /\ call.args.error.message = "none"
    /\ call.args.context = NoHints
    /\ call.result = [type |-> "TIMEOUT", code |-> "TOOL_TIMEOUT", message |-> "Unknown error"]

\* C25 (as claimed): every error.type and error.code attribute present on a
\* span when it is closed (stage spans and root span, caught and thrown
\* paths) is a member of the ErrorType / ErrorCode enumerations; a raw
\* exception code never appears as an error type or code.
C25_ErrorAttrsClosed ==
    \A i \in 1..Len(spans) :
        spans[i].ended >= 1 =>
            /\ spans[i].errType \in ErrorType \cup {"none"}
            /\ spans[i].errCode \in ErrorCode \cup {"none"}

\* C26 (as claimed): when the work callback of a stage throws, the stage
\* primitive closes the span with status ERROR and with error type / code
\* equal to the classifier's output for that stage and failure, and rethrows
\* the same failure; for the generation stage the classified error.type set
\* by the stage is still the value on the span at close.
C26_ThrowPathClassified ==
    /\ (pc = "rejected" /\ thrown \in LlmErrors) =>
          LET errorClass == classifyError("llm", thrown, llmErrorHints(thrown))
          IN  \E i \in SpanOf("llm") :
                 /\ spans[i].ended = 1
                 /\ spans[i].status = "ERROR"
                 /\ spans[i].errType = errorClass.type
                 /\ spans[i].errCode = errorClass.code
    /\ toolFailed =>
          \A i \in SpanOf("tool") :
             /\ spans[i].ended = 1
             /\ spans[i].status = "ERROR"
             /\ spans[i].errType = "TIMEOUT"

\* C27: required-attribute validation is enforced only outside production:
\* with isDev = FALSE the primitive never throws on validation whatever is
\* missing (the span is opened, the callback runs, the span is closed);
\* with isDev = TRUE a stage with a required attribute undefined or null
\* makes the primitive throw before any span is opened (zero opens, zero
\* closes) and before the callback runs.
C27_ValidationOnlyInDev ==
    PrimitiveReturned =>
        LET missing == RequiredAttrs(call.args.stage) \ call.args.attrs
        IN  /\ ~isDev =>
                  /\ ~call.result.threw
                  /\ call.result.callbackRan
                  /\ Len(spans) = 1
                  /\ spans[1].ended = 1
            /\ (isDev /\ missing # {}) =>
                  /\ call.result.threw
                  /\ ~call.result.callbackRan
                  /\ Len(spans) = 0

\* a generation stage call in a development build with one attribute
\* missing
C27_Witness ==
    /\ PrimitiveReturned
    /\ isDev
    /\ call.args.stage = "llm"
    /\ RequiredAttrs("llm") \ call.args.attrs = {"llm.cost.usd"}
    /\ call.result.threw
    /\ Len(spans) = 0

\* position of a stage in the pipeline (the root request span first)
StageOrder(stage) ==
    CASE stage = "request" -> 0
      [] stage = "rag" -> 1
      [] stage = "tool" -> 2
      [] stage = "llm" -> 3
      [] stage = "evaluation" -> 4
      [] stage = "remediation" -> 5

\* C28: within one request the stages execute strictly in the order
\* retrieval, tool, generation, evaluation, remediation: each stage's span
\* is closed before the next span is opened, the root request span is
\* opened before the first stage span and closed only after every stage
\* span is closed, and the response is assembled only after the
\* remediation stage has finished.
C28_StrictStageOrder ==
    /\ Len(spans) > 0 => spans[1].stage = "request"
    /\ \A i \in 2..Len(spans) : spans[i].stage # "request"
    /\ \A i, j \in 2..Len(spans) :
          i < j => /\ StageOrder(spans[i].stage) <= StageOrder(spans[j].stage)
                   /\ spans[i].ended = 1
    /\ (Len(spans) > 0 /\ spans[1].ended >= 1) => \A i \in 2..Len(spans) : spans[i].ended = 1
    /\ response # NoResponse =>
          /\ \E i \in SpanOf("remediation") : spans[i].ended = 1
          /\ remediationApplied # NoReport

\* a completed request with a failed tool call: root, retrieval, two tool
\* spans, generation, evaluation, remediation, all closed
C28_Witness ==
    /\ pc = "done"
    /\ [i \in 1..Len(spans) |-> spans[i].stage]
          = << "request", "rag", "tool", "tool", "llm", "evaluation", "remediation" >>
    /\ \A i \in 1..Len(spans) : spans[i].ended = 1
    /\ response # NoResponse

C30_NoLostIncrement ==
    /\ Len(requestCount) = Cardinality(Completed)
    /\ \A st \in Status :
          Cardinality({ i \in 1..Len(requestCount) : requestCount[i].status = st })
            = Cardinality({ r \in Completed : inflight[r].status = st })
    /\ Completed = Requests => Len(requestCount) = MaxRequests

\* all requests completed, with different resolved statuses
C30_Witness ==
    /\ Completed = Requests
    /\ Len(requestCount) = MaxRequests
    /\ inflight[1].status = "DEGRADED"
    /\ inflight[1].breakTool
    /\ inflight[MaxRequests].status = "OK"
    /\ requestCount[1].status = "OK"

\* C31: whatever the interleaving of the concurrent requests at their awaits,
\* a completed request's stage-outcome list, toolFailed flag, scores,
\* remediation report, resolved status and answer are those of the same
\* request run alone with the same retrieval, tool, generation and evaluator
\* results.
C31_NoInterference ==
    \A r \in Completed :
        LET alone == doOrchestrate(inflight[r].ragError, inflight[r].breakTool,
                                   inflight[r].text, inflight[r].evalResult)
        IN  /\ inflight[r].stageErrors = alone.stageErrors
            /\ inflight[r].toolFailed = alone.toolFailed
            /\ inflight[r].scores = alone.scores
            /\ inflight[r].remediation = alone.remediation
            /\ inflight[r].status = alone.status
            /\ inflight[r].answer = alone.answer

\* two requests completed side by side with different collaborator results
\* and different outcomes
C31_Witness ==
    /\ Completed = Requests
    /\ \E r1, r2 \in Requests :
          /\ inflight[r1].breakTool /\ inflight[r1].ragError # NoRaw
          /\ inflight[r1].status = "DEGRADED" /\ ~inflight[r1].remediation.triggered
          /\ ~inflight[r2].breakTool /\ inflight[r2].ragError = NoRaw
          /\ inflight[r2].status = "OK"
          /\ inflight[r1].answer = inflight[r2].answer

\* C32: every response orchestrate returns, whatever retrieval, tool and
\* evaluation failures occurred, carries eval with its five scores and
\* remediation with triggered, actions and finalMode set by the remediation
\* stage; when evaluation failed the five scores are the fallback ones.
C32_ResponsePopulated ==
    pc = "done" =>
        /\ \A k \in {"faithfulness", "relevance", "policyRisk", "hallucination", "overall"} :
              response.eval[k] \in 0..SCALE
        /\ response.eval = scores
        /\ response.remediation = inlineRemediation(response.eval)
        /\ response.remediation.finalMode \in {"NORMAL", "DEGRADED"}
        /\ response.remediation.triggered = (Len(response.remediation.actions) > 0)
        /\ evaluationError =>
              \E reason \in {"Evaluation engine failure", "Evaluation stage failure"} :
                 response.eval = fallbackScores(reason)

\* a response returned after retrieval, the tool and the evaluator all failed
C32_Witness ==
    /\ pc = "done"
    /\ RagThrew
    /\ toolFailed
    /\ EvaluatorThrew
    /\ response.eval.overall = SCALE \div 2
    /\ response.remediation.finalMode = "DEGRADED"

\* C33 (as claimed): on every score set the evaluation stage can produce,
\* overall < 0.75 exactly when faithfulness < 0.8, and remediate (keyed on
\* faithfulness) and the inline rule (keyed on overall) select CLARIFICATION
\* for the same requests.
C33_TriggerRulesEquivalent ==
    Remediated =>
        LET sc == call.args.scores
            byRemediate == remediate(sc, call.args.toolFailed).actions
            byInline == inlineRemediation(sc).actions
        IN  /\ (sc.overall < (75 * SCALE) \div 100) <=> (sc.faithfulness < (8 * SCALE) \div 10)
            /\ (\E i \in 1..Len(byRemediate) : byRemediate[i] = "CLARIFICATION")
                  <=> (\E i \in 1..Len(byInline) : byInline[i] = "CLARIFICATION")

\* C34 (as claimed): when the evaluator throws inside the evaluation stage,
\* the evaluation span is closed with its status attribute equal to ERROR.
C34_EvaluationSpanClosedError ==
    EvaluatorThrew =>
        \A i \in SpanOf("evaluation") : spans[i].ended > 0 => spans[i].status = "ERROR"

\* C35 (as claimed): every tool span is closed with status ERROR exactly when
\* its tool.result attribute is FAILURE, and a tool span whose tool.result is
\* SUCCESS is closed with status OK.
C35_ToolStatusMatchesResult ==
    \A i \in SpanOf("tool") :
        spans[i].ended > 0 =>
            /\ (spans[i].status = "ERROR") <=> (spans[i].toolResult = "FAILURE")
            /\ spans[i].toolResult = "SUCCESS" => spans[i].status = "OK"

\* the hints classifyError is claimed to read for a stage
C36_StageHints(stage) ==
    CASE stage = "rag" -> {"timeout", "providerDown", "emptyResult"}
      [] stage = "tool" -> {"timeout", "providerDown"}
      [] stage = "llm" -> {"rateLimit", "providerDown"}
      [] OTHER -> {}

\* C36: with several hints set classifyError follows a fixed precedence:
\* retrieval timeout > providerDown > emptyResult, and provider-down with no
\* hint; tool timeout (hint or error code TOOL_TIMEOUT) > providerDown;
\* generation rateLimit > providerDown; a hint outside the stage's own never
\* changes the classification.
C36_HintPrecedence ==
    Classified =>
        LET a == call.args
            h == a.context
            res == call.result
            is(type, code) == res.type = type /\ res.code = code
        IN  /\ a.stage = "rag" =>
                 /\ h.timeout => is("TIMEOUT", "RAG_TIMEOUT")
                 /\ (~h.timeout /\ h.providerDown) => is("RAG_ERROR", "RAG_PROVIDER_DOWN")
                 /\ (~h.timeout /\ ~h.providerDown /\ h.emptyResult) =>
                        is("RAG_ERROR", "RAG_EMPTY_RESULT")
                 /\ (~h.timeout /\ ~h.providerDown /\ ~h.emptyResult) =>
                        is("RAG_ERROR", "RAG_PROVIDER_DOWN")
            /\ a.stage = "tool" =>
                 /\ (h.timeout \/ a.error.code = "TOOL_TIMEOUT") => is("TIMEOUT", "TOOL_TIMEOUT")
                 /\ (~h.timeout /\ a.error.code # "TOOL_TIMEOUT" /\ h.providerDown) =>
                        is("TOOL_ERROR", "TOOL_UNAVAILABLE")
            /\ a.stage = "llm" =>
                 /\ h.rateLimit => is("RATE_LIMIT", "LLM_RATE_LIMIT")
                 /\ (~h.rateLimit /\ h.providerDown) => is("LLM_ERROR", "LLM_PROVIDER_DOWN")
            /\ \A other \in HintSets :
                 (\A k \in C36_StageHints(a.stage) : other[k] = h[k]) =>
                     classifyError(a.stage, a.error, other) = res

\* a retrieval failure classified with the timeout, providerDown and
\* emptyResult hints all set, and a foreign hint as well
C36_Witness ==
    /\ Classified
    /\ call.args.stage = "rag"
    /\ call.args.context = [timeout |-> TRUE, rateLimit |-> TRUE, providerDown |-> TRUE,
                            emptyResult |-> TRUE]
    /\ call.result.code = "RAG_TIMEOUT"

\* C37: a completed request resolves to OK or DEGRADED, also when the
\* generated text is empty; the root span carries status ERROR only on a run
\* aborted by a failure thrown out of the pipeline; and a completed request
\* resolves to OK only if no stage error was recorded and remediation was not
\* triggered.
C37_ResolvedStatus ==
    /\ pc = "done" =>
          /\ finalStatus \in {"OK", "DEGRADED"}
          /\ spans[1].status = finalStatus
          /\ finalStatus = "OK" =>
                (~hasStageErrors(stageErrors) /\ ~remediationApplied.triggered)
    /\ (Len(spans) > 0 /\ spans[1].status = "ERROR") => pc = "rejected"

\* a request completed with a recorded stage error and without remediation;
\* it resolved to DEGRADED
C37_Witness ==
    /\ pc = "done"
    /\ hasStageErrors(stageErrors)
    /\ ~remediationApplied.triggered
    /\ finalStatus = "DEGRADED"
    /\ spans[1].status = "DEGRADED"

\* the attempt ended with a not-found (404) or rate-limit (429) error
C38_NotFoundOrRateLimit(o) ==
    ~o.ok /\ (o.status = 404 \/ o.notFound \/ o.status = 429)

====
